---------------------------- MODULE Spec2Model ----------------------------
(***************************************************************************)
(* A model of the retrieval core of CodeContext-AI:                        *)
(*   - the JSON-backed vector store (services/vector_store.py),            *)
(*   - the retriever built on it (services/retrieval.py),                  *)
(*   - the chunker (services/chunking.py).                                 *)
(* Operations of the vector store are modelled statement by statement,     *)
(* each thread holding references into a heap of dict objects, so that     *)
(* both their sequential contract (Spec) and the interleavings of          *)
(* concurrent request threads (SpecConc) can be examined.                  *)
(***************************************************************************)
EXTENDS Integers, Sequences, FiniteSets, TLC

(***************************************************************************)
(* Bounds of the model.                                                    *)
(***************************************************************************)
MaxEntries == 3      \* an add is started only while the store holds at most this many entries
MaxBatch == 2        \* longest list of chunks handed to one add
MaxTopK == 2         \* largest explicit top_k handed to query_chunks
MaxCalls == 2        \* calls made in one run of concurrent requests

Projects == {1, 2}
Threads == {1, 2}
Tags == {1, 2, 3}    \* identities of the chunks a caller can add

(***************************************************************************)
(* Program constants.                                                      *)
(***************************************************************************)
DEFAULT_TOP_K == 20

(***************************************************************************)
(* Embedding vectors: two-dimensional integer vectors with integer norm.   *)
(* Chunks 1 and 2 embed to the same vector, so every query sees a tie.     *)
(***************************************************************************)
EmbOf(tag) == CASE tag = 1 -> <<1, 0>>
                [] tag = 2 -> <<1, 0>>
                [] OTHER   -> <<3, 4>>

QueryVectors == {<<1, 0>>, <<-1, 0>>}

Dot(a, b) == a[1] * b[1] + a[2] * b[2]

Norm(v) == CHOOSE n \in 0..5 : n * n = Dot(v, v)

\* Cosine similarity of stored vector s and query vector q, in units of 1/25.
\* A zero vector divided by (0 + 1e-10) stays the zero vector: similarity 0.
Similarity(s, q) == IF Norm(s) = 0 \/ Norm(q) = 0 THEN 0
                    ELSE (Dot(s, q) * 25) \div (Norm(s) * Norm(q))

\* 1 - similarity, in units of 1/25 (so the range [0, 2] is 0..50).
Distance(sim) == 25 - sim

(***************************************************************************)
(* Sequences helpers.                                                      *)
(***************************************************************************)
Min(a, b) == IF a <= b THEN a ELSE b

Reverse(s) == [i \in 1..Len(s) |-> s[Len(s) + 1 - i]]

Take(s, n) == SubSeq(s, 1, Min(n, Len(s)))

SeqsUpTo(S, n) == UNION {[1..m -> S] : m \in 0..n}

Perms(n) == {f \in [1..n -> 1..n] : \A i, j \in 1..n : i # j => f[i] # f[j]}


(***************************************************************************)
(* State of the vector store.                                              *)
(*   collections : the module-level cache _collections, project -> object  *)
(*   heap        : the dict objects the cache and the threads refer to,    *)
(*                 per project (an object is only ever reached through     *)
(*                 the project it was loaded for)                          *)
(*   files       : the durable file project_<id>.json of every project     *)
(*   pc, op      : position and local variables of every request thread    *)
(*   last        : the call that has just returned or raised, with its     *)
(*                 result, until its caller has taken it                   *)
(*   calls       : the number of calls begun by concurrent requests        *)
(*   done        : the calls of a run whose callers have taken the result, *)
(*                 in the order in which they did                          *)
(***************************************************************************)
VARIABLES collections, heap, files, pc, op, last, calls, done,
          settings, file, cpc, frame, result,
          projects, ingest, request, embedder

\* The state of the chunker (described with its model below).
chunker == <<settings, file, cpc, frame, result>>

\* The state of the application around them: the project row, the ingestion
\* task, a request handler and the embedding service (described with their
\* model below).
app == <<projects, ingest, request, embedder>>

\* What a run of concurrent calls has done so far.
history == <<calls, done>>

NoRef == 0

\* Addresses of the objects of one project: the cached one, and per thread
\* the locals collection and data.
ObjIds == 1..(1 + 2 * Cardinality(Threads))

Dict(kind, i, d, e, m) ==
    [kind |-> kind, ids |-> i, documents |-> d, embeddings |-> e, metadatas |-> m]

Free == Dict("free", <<>>, <<>>, <<>>, <<>>)        \* no object at this address
NoKeys == Dict("nokeys", <<>>, <<>>, <<>>, <<>>)    \* the dict {}
EmptyColl == Dict("coll", <<>>, <<>>, <<>>, <<>>)   \* the four empty lists

\* A durable file: its content, and the threads that hold it open for writing.
\* (A file removed while a thread holds it open is unlinked: what that thread
\* dumps afterwards is not seen under the path any more.)
NoFile == [kind |-> "absent", data |-> Free, writers |-> {}]
TruncFile(w) == [kind |-> "trunc", data |-> Free, writers |-> w]   \* nothing dumped yet
JsonFile(d, w) == [kind |-> "json", data |-> d, writers |-> w]

IdleOp ==
    [name |-> "none", pid |-> 0,
     ids |-> <<>>, documents |-> <<>>, embeddings |-> <<>>, metadatas |-> <<>>,
     query_embedding |-> <<0, 0>>, top_k |-> 0,
     collection |-> NoRef, data |-> NoRef,
     similarities |-> <<>>, top_indices |-> <<>>,
     result_ids |-> <<>>, result_docs |-> <<>>, result_metas |-> <<>>,
     result_distances |-> <<>>, chunks |-> <<>>,
     pre |-> Free, pre_file |-> NoFile, pre_cached |-> FALSE,
     outcome |-> "none", exc |-> "none"]

\* What _load_collection would hand out for project p in the current state.
Stored(p) ==
    IF collections[p] # NoRef THEN heap[p][collections[p]]
    ELSE IF files[p].kind = "json" THEN files[p].data ELSE EmptyColl

\* Objects no reference reaches are reclaimed.
Collect(h, c, o) ==
    [p \in Projects |->
        LET mine == {t \in Threads : o[t].pid = p}
            live == {c[p]} \cup {o[t].collection : t \in mine}
                           \cup {o[t].data : t \in mine}
        IN  [i \in ObjIds |-> IF i \in live THEN h[p][i] ELSE Free]]

\* The address a new object of project p gets.
Alloc(h, p) == CHOOSE i \in ObjIds : h[p][i].kind = "free"
                                     /\ \A j \in ObjIds : h[p][j].kind = "free" => i <= j

\* The dict collection of thread t.
Coll(t) == heap[op[t].pid][op[t].collection]

\* One statement of thread t: its locals become o, its position becomes p.
Goto(t, p, o, h, c, f) ==
    /\ pc' = [pc EXCEPT ![t] = p]
    /\ op' = [op EXCEPT ![t] = o]
    /\ collections' = c
    /\ files' = f
    /\ heap' = Collect(h, c, op')
    /\ UNCHANGED <<last, history, chunker, app>>

\* The operation of thread t ends: it returns, or exception e leaves it.
Finish(t, o, e, h, c, f) ==
    /\ pc' = [pc EXCEPT ![t] = "idle"]
    /\ op' = [op EXCEPT ![t] = IdleOp]
    /\ collections' = c
    /\ files' = f
    /\ heap' = Collect(h, c, op')
    /\ last' = [o EXCEPT !.collection = NoRef, !.data = NoRef,
                         !.outcome = IF e = "none" THEN "ok" ELSE "raise",
                         !.exc = e]
    /\ UNCHANGED <<history, chunker, app>>

Return(t, o, h, c, f) == Finish(t, o, "none", h, c, f)

Raise(t, e) == Finish(t, op[t], e, heap, collections, files)

AllIdle == \A t \in Threads : pc[t] = "idle"

(***************************************************************************)
(* Callers.  A caller hands add_chunks four index-aligned lists built from *)
(* one list of chunks (routers/upload.py), and query_chunks a vector.      *)
(***************************************************************************)
\* The locals of a call that begins, with the state it begins in.
Begin(name, p) ==
    [IdleOp EXCEPT !.name = name, !.pid = p, !.pre = Stored(p),
                   !.pre_file = files[p], !.pre_cached = (collections[p] # NoRef)]

\* Thread t enters an operation at position p with locals o.
Call(t, p, o) ==
    /\ pc[t] = "idle"
    /\ last.name = "none"
    /\ pc' = [pc EXCEPT ![t] = p]
    /\ op' = [op EXCEPT ![t] = o]
    /\ UNCHANGED <<collections, heap, files, last, chunker>>

\* The caller takes the result of the call that has just ended.
Resume ==
    /\ last.name # "none"
    /\ last' = IdleOp
    /\ UNCHANGED <<collections, heap, files, pc, op, history, chunker, app>>

RECURSIVE StoredIn(_)
StoredIn(P) ==
    IF P = {} THEN 0
    ELSE LET p == CHOOSE x \in P : TRUE
         IN  Len(Stored(p).ids) + StoredIn(P \ {p})

Batches == SeqsUpTo(Tags, MaxBatch)
TopKs == 0..MaxTopK

StartAdd(t, P, B) ==
    \E p \in P, batch \in B :
       /\ StoredIn(Projects) + Len(batch) <= MaxEntries
       /\ Call(t, "load",
               [Begin("add", p) EXCEPT
                   !.ids = batch, !.documents = batch,
                   !.embeddings = [i \in 1..Len(batch) |-> EmbOf(batch[i])],
                   !.metadatas = batch])

StartQuery(t, P, Q, K) ==
    \E p \in P, q \in Q, k \in K :
       Call(t, "load", [Begin("query", p) EXCEPT !.query_embedding = q, !.top_k = k])

\* retrieve: top_k is None at every call site, so DEFAULT_TOP_K is used;
\* embed_query yields the query vector.
StartRetrieve(t, P, Q) ==
    \E p \in P, q \in Q :
       Call(t, "load", [Begin("retrieve", p) EXCEPT !.query_embedding = q,
                                                    !.top_k = DEFAULT_TOP_K])

StartDelete(t, P) ==
    \E p \in P : Call(t, "d_exists", Begin("delete", p))

(***************************************************************************)
(* _load_collection                                                        *)
(***************************************************************************)
AfterLoad(name) == IF name = "add" THEN "ext_ids" ELSE "q_check"

\* line 28-29: the cache holds the project
LoadCheck(t) ==
    /\ pc[t] = "load"
    /\ LET p == op[t].pid IN
       IF collections[p] # NoRef
       THEN Goto(t, AfterLoad(op[t].name),
                 [op[t] EXCEPT !.collection = collections[p]],
                 heap, collections, files)
       ELSE Goto(t, "load_read", op[t], heap, collections, files)

\* The dict lines 31-38 build from file f: json.load gives back what json.dump
\* was given (lists of strings, floats and string-keyed dicts of strings and
\* integers), and a missing file gives the four empty lists.
Loaded(f) == IF f.kind = "json" THEN f.data ELSE EmptyColl

\* line 31-34 (json.load of the file) or line 38 (the empty collection);
\* json.load of a file that holds nothing yet raises
LoadRead(t) ==
    /\ pc[t] = "load_read"
    /\ LET p == op[t].pid
           a == Alloc(heap, p)
       IN  IF files[p].kind = "trunc" THEN Raise(t, "JSONDecodeError")
           ELSE Goto(t, "load_store", [op[t] EXCEPT !.collection = a],
                     [heap EXCEPT ![p][a] = Loaded(files[p])], collections, files)

\* line 35 or 39: _collections[project_id] = ...
LoadStore(t) ==
    /\ pc[t] = "load_store"
    /\ Goto(t, AfterLoad(op[t].name), op[t], heap,
            [collections EXCEPT ![op[t].pid] = op[t].collection], files)

(***************************************************************************)
(* add_chunks: four extends of the lists of the loaded dict, then the save *)
(***************************************************************************)
\* line 72: collection["ids"].extend(ids)
ExtendIds(t) ==
    /\ pc[t] = "ext_ids"
    /\ LET c == op[t].collection IN
       IF Coll(t).kind = "nokeys" THEN Raise(t, "KeyError")
       ELSE Goto(t, "ext_docs", op[t],
                 [heap EXCEPT ![op[t].pid][c].ids = @ \o op[t].ids], collections, files)

\* line 73: collection["documents"].extend(documents)
ExtendDocuments(t) ==
    /\ pc[t] = "ext_docs"
    /\ LET c == op[t].collection IN
       Goto(t, "ext_embs", op[t],
            [heap EXCEPT ![op[t].pid][c].documents = @ \o op[t].documents], collections, files)

\* line 74: collection["embeddings"].extend(embeddings)
ExtendEmbeddings(t) ==
    /\ pc[t] = "ext_embs"
    /\ LET c == op[t].collection IN
       Goto(t, "ext_metas", op[t],
            [heap EXCEPT ![op[t].pid][c].embeddings = @ \o op[t].embeddings], collections, files)

\* Mutant: the list is assigned instead of extended.
ExtendMetadatasAssign(t) ==
    /\ pc[t] = "ext_metas"
    /\ LET c == op[t].collection IN
       Goto(t, "save_get", op[t],
            [heap EXCEPT ![op[t].pid][c].metadatas = op[t].metadatas], collections, files)

\* line 75: collection["metadatas"].extend(metadatas)
ExtendMetadatas(t) ==
    /\ pc[t] = "ext_metas"
    /\ LET c == op[t].collection IN
       Goto(t, "save_get", op[t],
            [heap EXCEPT ![op[t].pid][c].metadatas = @ \o op[t].metadatas], collections, files)

(***************************************************************************)
(* _save_collection.  The dict that is dumped is the one the cache holds   *)
(* when line 48 runs ({} if the cache holds none), with the contents it    *)
(* has when line 50 runs.  Two writers of one file: the later dump wins.   *)
(***************************************************************************)
\* line 48: data = _collections.get(project_id, {})
SaveGet(t) ==
    /\ pc[t] = "save_get"
    /\ Goto(t, "save_open", [op[t] EXCEPT !.data = collections[op[t].pid]],
            heap, collections, files)

\* line 49: open(path, "w") creates or truncates the file
SaveOpen(t) ==
    /\ pc[t] = "save_open"
    /\ Goto(t, "save_dump", op[t], heap, collections,
            [files EXCEPT ![op[t].pid] = TruncFile(@.writers \cup {t})])

Dumped(h, d) == IF d = NoRef THEN NoKeys ELSE h[d]

\* Mutant: nothing is dumped into the opened file.
SaveDumpSkipped(t) ==
    /\ pc[t] = "save_dump"
    /\ Return(t, op[t], heap, collections,
              [files EXCEPT ![op[t].pid].writers = @ \ {t}])

\* line 50: json.dump(data, f); add_chunks returns None
SaveDump(t) ==
    /\ pc[t] = "save_dump"
    /\ LET p == op[t].pid IN
       Return(t, op[t], heap, collections,
              IF t \in files[p].writers
              THEN [files EXCEPT ![p] = JsonFile(Dumped(heap[p], op[t].data),
                                                 @.writers \ {t})]
              ELSE files)

(***************************************************************************)
(* delete_collection                                                       *)
(***************************************************************************)
\* line 128: os.path.exists(path)
DeleteExists(t) ==
    /\ pc[t] = "d_exists"
    /\ Goto(t, IF files[op[t].pid].kind # "absent" THEN "d_remove" ELSE "d_pop",
            op[t], heap, collections, files)

\* line 129: os.remove(path)
DeleteRemove(t) ==
    /\ pc[t] = "d_remove"
    /\ IF files[op[t].pid].kind = "absent" THEN Raise(t, "FileNotFoundError")
       ELSE Goto(t, "d_pop", op[t], heap, collections,
                 [files EXCEPT ![op[t].pid] = NoFile])

\* Mutant: the cache entry is left in place.
DeletePopSkipped(t) ==
    /\ pc[t] = "d_pop"
    /\ Return(t, op[t], heap, collections, files)

\* line 131: _collections.pop(project_id, None)
DeletePop(t) ==
    /\ pc[t] = "d_pop"
    /\ Return(t, op[t], heap, [collections EXCEPT ![op[t].pid] = NoRef], files)

(***************************************************************************)
(* query_chunks                                                            *)
(***************************************************************************)
\* query_chunks hands its result to its caller: retrieve goes on with it.
QueryReturn(t, o) ==
    IF o.name = "retrieve" THEN Goto(t, "r_map", o, heap, collections, files)
    ELSE Return(t, o, heap, collections, files)

\* Mutant: the guard for the empty collection is missing.
QueryCheckUnguarded(t) ==
    /\ pc[t] = "q_check"
    /\ IF Coll(t).kind = "nokeys" THEN Raise(t, "KeyError")
       ELSE Goto(t, "q_sims", op[t], heap, collections, files)

\* line 92-93: no embeddings, the empty result
QueryCheck(t) ==
    /\ pc[t] = "q_check"
    /\ CASE Coll(t).kind = "nokeys" -> Raise(t, "KeyError")
         [] Coll(t).embeddings = <<>> -> QueryReturn(t, op[t])
         [] OTHER -> Goto(t, "q_sims", op[t], heap, collections, files)

\* line 96-104: the cosine similarity of every stored vector with the query
Similarities(embeddings, q) ==
    [i \in 1..Len(embeddings) |-> Similarity(embeddings[i], q)]

QuerySimilarities(t) ==
    /\ pc[t] = "q_sims"
    /\ Goto(t, "q_top",
            [op[t] EXCEPT !.similarities =
                Similarities(Coll(t).embeddings, op[t].query_embedding)],
            heap, collections, files)

\* np.argsort(similarities): the indices in an order of non-decreasing value.
\* The default sort kind is not stable: equal values come in any order.
Argsort(similarities) ==
    {f \in Perms(Len(similarities)) :
        \A i, j \in 1..Len(similarities) :
            i < j => similarities[f[i]] <= similarities[f[j]]}

\* Mutant: the [::-1] is forgotten, the lowest similarities come first.
TopIndicesAscending(sorted, top_k) == Take(sorted, Min(top_k, Len(sorted)))

\* line 107-108: k = min(top_k, len(similarities)); argsort(...)[::-1][:k]
TopIndices(sorted, top_k) == Take(Reverse(sorted), Min(top_k, Len(sorted)))

\* line 107-109; the arguments of logger.debug index top_indices[0]
QueryTop(t) ==
    /\ pc[t] = "q_top"
    /\ \E top_indices \in {TopIndices(sorted, op[t].top_k) :
                                sorted \in Argsort(op[t].similarities)} :
          IF top_indices = <<>> THEN Raise(t, "IndexError")
          ELSE Goto(t, "q_ids", [op[t] EXCEPT !.top_indices = top_indices],
                    heap, collections, files)

\* [lst[i] for i in top_indices]
Pick(lst, top_indices) == [n \in 1..Len(top_indices) |-> lst[top_indices[n]]]

InRange(lst, top_indices) == \A n \in 1..Len(top_indices) : top_indices[n] <= Len(lst)

\* line 112
QueryIds(t) ==
    /\ pc[t] = "q_ids"
    /\ LET lst == Coll(t).ids IN
       IF ~InRange(lst, op[t].top_indices) THEN Raise(t, "IndexError")
       ELSE Goto(t, "q_docs", [op[t] EXCEPT !.result_ids = Pick(lst, op[t].top_indices)],
                 heap, collections, files)

\* line 113
QueryDocuments(t) ==
    /\ pc[t] = "q_docs"
    /\ LET lst == Coll(t).documents IN
       IF ~InRange(lst, op[t].top_indices) THEN Raise(t, "IndexError")
       ELSE Goto(t, "q_metas", [op[t] EXCEPT !.result_docs = Pick(lst, op[t].top_indices)],
                 heap, collections, files)

\* line 114
QueryMetadatas(t) ==
    /\ pc[t] = "q_metas"
    /\ LET lst == Coll(t).metadatas IN
       IF ~InRange(lst, op[t].top_indices) THEN Raise(t, "IndexError")
       ELSE Goto(t, "q_dists", [op[t] EXCEPT !.result_metas = Pick(lst, op[t].top_indices)],
                 heap, collections, files)

\* line 115: float(1.0 - similarities[i])
ResultDistances(similarities, top_indices) ==
    [n \in 1..Len(top_indices) |-> Distance(similarities[top_indices[n]])]

\* line 115-122
QueryDistances(t) ==
    /\ pc[t] = "q_dists"
    /\ QueryReturn(t, [op[t] EXCEPT !.result_distances =
                          ResultDistances(op[t].similarities, op[t].top_indices)])

(***************************************************************************)
(* retrieve (services/retrieval.py), after query_chunks has returned       *)
(***************************************************************************)
RetrievedChunk(meta, code, distance) ==
    [meta |-> meta, code |-> code, distance |-> distance]

\* line 44-65
RetrieveMap(t) ==
    /\ pc[t] = "r_map"
    /\ Return(t, [op[t] EXCEPT !.chunks =
                     [i \in 1..Len(op[t].result_ids) |->
                         RetrievedChunk(op[t].result_metas[i], op[t].result_docs[i],
                                        op[t].result_distances[i])]],
              heap, collections, files)

(***************************************************************************)
(* The process is restarted while no request runs: the cache is gone, the  *)
(* files stay.                                                             *)
(***************************************************************************)
Restart ==
    /\ AllIdle
    /\ last.name = "none"
    /\ \E p \in Projects : collections[p] # NoRef
    /\ collections' = [p \in Projects |-> NoRef]
    /\ heap' = [p \in Projects |-> [i \in ObjIds |-> Free]]
    /\ UNCHANGED <<files, pc, op, last, history, chunker, app>>

(***************************************************************************)
(* The chunker (services/chunking.py).                                     *)
(*                                                                         *)
(* A text is the sequence of the pieces its string has between newline     *)
(* characters (what str.split("\n") gives): the empty string is <<Blank>>, *)
(* and a text that ends in a newline has Blank as its last piece.  A line  *)
(* is its leading whitespace (a number of indentation levels) and what     *)
(* follows it.                                                             *)
(*                                                                         *)
(*   settings : the configuration the process started with                 *)
(*   file     : the file chunk_file is working on (path, content, language)*)
(*   cpc      : the position of chunk_file                                 *)
(*   frame    : the locals of the window loop of _chunk_by_lines           *)
(*   result   : what the last call of chunk_file handed back               *)
(***************************************************************************)
MaxLines == 3        \* most newline-separated pieces in a file's content
MaxChunks == 4       \* most windows the loop of _chunk_by_lines is followed for

MAX_CHUNK_LINES == 200
FALLBACK_CHUNK_LINES == 150
overlap == 20

Line(indent, body) == [indent |-> indent, body |-> body]

Blank == Line(0, "")

\* An expression nested deeper than the parser can follow.
Deep == "x = ----- ... -----1"

\* The lines files are written with.
Lines == {Blank,
          Line(0, "import os"),
          Line(0, "def f():"),
          Line(1, "x = 1"),
          Line(0, "class C:"),
          Line(1, "def f():"),
          Line(2, "x = 1"),
          Line(0, "function f() {"),
          Line(0, Deep)}

\* Files longer than the default MAX_CHUNK_LINES, of plain statements.
LongLengths == {MAX_CHUNK_LINES + 1, 270, 281}

LongContents == {[k \in 1..n |-> Line(0, "import os")] : n \in LongLengths}

Contents == SeqsUpTo(Lines, MaxLines) \ {<<>>}

Languages == {"python", "javascript", "typescript", "text"}

Paths == {"src/a"}

\* Short files in every language, and the long ones in a language that has
\* no structured or heuristic strategy.
Files == [file_path : Paths, content : Contents, language : Languages]
         \cup [file_path : Paths, content : LongContents, language : {"text"}]

\* Settings the process can be started with: the defaults of config.py, a
\* small MAX_CHUNK_LINES, and windows just above and at the overlap.
SettingsSet == [MAX_CHUNK_LINES : {1, MAX_CHUNK_LINES},
                FALLBACK_CHUNK_LINES : {overlap, overlap + 1, FALLBACK_CHUNK_LINES}]

DefaultSettings == [MAX_CHUNK_LINES |-> MAX_CHUNK_LINES,
                    FALLBACK_CHUNK_LINES |-> FALLBACK_CHUNK_LINES]

\* str.splitlines(): the pieces, without the empty piece after a final newline.
splitlines(text) == IF text[Len(text)] = Blank THEN SubSeq(text, 1, Len(text) - 1)
                    ELSE text

\* "\n".join(ls)
join(ls) == IF ls = <<>> THEN <<Blank>> ELSE ls

\* ls[a:b] for 0 <= a
Slice(ls, a, b) == SubSeq(ls, a + 1, Min(b, Len(ls)))

IsSpace(l) == l.body = ""

RECURSIVE lstrip(_)
lstrip(text) == IF IsSpace(text[1])
                THEN IF Len(text) = 1 THEN <<Blank>> ELSE lstrip(Tail(text))
                ELSE <<Line(0, text[1].body)>> \o Tail(text)

RECURSIVE rstrip(_)
rstrip(text) == IF IsSpace(text[Len(text)])
                THEN IF Len(text) = 1 THEN <<Blank>>
                     ELSE rstrip(SubSeq(text, 1, Len(text) - 1))
                ELSE text

strip(text) == rstrip(lstrip(text))

\* The truth value of a string: it is not empty.
Truthy(text) == text # <<Blank>>

\* str(n) for n >= 0, as the sequence of its digits.
Digit(n) == CASE n = 0 -> "0" [] n = 1 -> "1" [] n = 2 -> "2" [] n = 3 -> "3"
              [] n = 4 -> "4" [] n = 5 -> "5" [] n = 6 -> "6" [] n = 7 -> "7"
              [] n = 8 -> "8" [] OTHER -> "9"

RECURSIVE Str(_)
Str(n) == IF n < 10 THEN <<Digit(n)>> ELSE Str(n \div 10) \o <<Digit(n % 10)>>

\* A symbol is the sequence of the parts its string is formatted from.
CodeChunk(file_path, symbol, code, language, start_line, end_line) ==
    [file_path |-> file_path, symbol |-> symbol, code |-> code,
     language |-> language, start_line |-> start_line, end_line |-> end_line]

(***************************************************************************)
(* ast.parse, on the lines above: simple statements, def and class headers *)
(* with an indented block, blocks nested by indentation.  The first error  *)
(* in the file is the one raised: a SyntaxError (IndentationError is one), *)
(* or the MemoryError of an expression nested too deep.                    *)
(***************************************************************************)
SimpleStatements == {"import os", "x = 1"}

NodeType(body) == CASE body = "def f():" -> "FunctionDef"
                    [] body = "class C:" -> "ClassDef"
                    [] OTHER -> "Stmt"

NodeName(body) == CASE body = "def f():" -> "f"
                    [] body = "class C:" -> "C"
                    [] OTHER -> ""

Node(type, name, lineno, end_lineno, body) ==
    [type |-> type, name |-> name, lineno |-> lineno, end_lineno |-> end_lineno,
     body |-> body]

ParseError(e) == [exc |-> e, body |-> <<>>, n |-> 0]

\* The first line from n on that is not blank (Len(ls) + 1 if there is none).
RECURSIVE NextCode(_, _)
NextCode(ls, n) == IF n > Len(ls) THEN n
                   ELSE IF IsSpace(ls[n]) THEN NextCode(ls, n + 1)
                   ELSE n

RECURSIVE ParseBlock(_, _, _)
RECURSIVE ParseStatement(_, _, _)

\* The statements of one block from line n on; stack holds the indentation
\* of the blocks that are open, the innermost last.
ParseBlock(ls, n, stack) ==
    LET m == NextCode(ls, n)
        top == stack[Len(stack)]
    IN  IF m > Len(ls) THEN [exc |-> "", body |-> <<>>, n |-> m]
        ELSE IF ls[m].indent > top THEN ParseError("SyntaxError")
        ELSE IF ls[m].indent < top
             THEN IF \E k \in 1..Len(stack) : stack[k] = ls[m].indent
                  THEN [exc |-> "", body |-> <<>>, n |-> m]
                  ELSE ParseError("SyntaxError")
        ELSE LET stmt == ParseStatement(ls, m, stack)
             IN  IF stmt.exc # "" THEN stmt
                 ELSE LET rest == ParseBlock(ls, stmt.n, stack)
                      IN  IF rest.exc # "" THEN rest
                          ELSE [exc |-> "", body |-> stmt.body \o rest.body,
                                n |-> rest.n]

\* The statement that begins on line n (body holds its one node).
ParseStatement(ls, n, stack) ==
    LET b == ls[n].body
        m == NextCode(ls, n + 1)
    IN  IF b \in SimpleStatements
        THEN [exc |-> "", body |-> <<Node("Stmt", "", n, n, <<>>)>>, n |-> n + 1]
        ELSE IF b = Deep THEN ParseError("MemoryError")
        ELSE IF NodeType(b) = "Stmt" THEN ParseError("SyntaxError")
        ELSE IF m > Len(ls) \/ ls[m].indent <= ls[n].indent
             THEN ParseError("SyntaxError")
        ELSE LET block == ParseBlock(ls, m, Append(stack, ls[m].indent))
             IN  IF block.exc # "" THEN block
                 ELSE [exc |-> "",
                       body |-> <<Node(NodeType(b), NodeName(b), n,
                                       block.body[Len(block.body)].end_lineno,
                                       block.body)>>,
                       n |-> block.n]

ast_parse(content) == ParseBlock(splitlines(content), 1, <<0>>)

IsDef(node) == node.type = "FunctionDef"

IsDefOrClass(node) == node.type \in {"FunctionDef", "ClassDef"}

\* The lineno of the first node of body that test accepts, 0 (None) if none.
RECURSIVE FirstLine(_, _)
FirstLine(body, classes) ==
    IF body = <<>> THEN 0
    ELSE IF IsDef(body[1]) \/ (classes /\ IsDefOrClass(body[1])) THEN body[1].lineno
    ELSE FirstLine(Tail(body), classes)

(***************************************************************************)
(* _chunk_python, lines 48-140.  The result is the list of chunks, or the  *)
(* exception that leaves the function.                                     *)
(***************************************************************************)
\* lines 59-76: the preamble chunk
PythonPreamble(f, lines, tree) ==
    LET first_node_line == FirstLine(tree, TRUE)
        preamble == strip(join(Slice(lines, 0, first_node_line - 1)))
    IN  IF first_node_line # 0 /\ first_node_line > 1
           /\ Truthy(preamble) /\ Len(splitlines(preamble)) >= 3
        THEN <<CodeChunk(f.file_path, <<"<module>">>, preamble, "python",
                         1, first_node_line - 1)>>
        ELSE <<>>

\* lines 126-138: the chunks of the methods of a class that is split
RECURSIVE MethodChunks(_, _, _, _)
MethodChunks(f, lines, class, body) ==
    IF body = <<>> THEN <<>>
    ELSE (IF IsDef(body[1])
          THEN <<CodeChunk(f.file_path, <<class.name, ".", body[1].name>>,
                           join(Slice(lines, body[1].lineno - 1, body[1].end_lineno)),
                           "python", body[1].lineno, body[1].end_lineno)>>
          ELSE <<>>)
         \o MethodChunks(f, lines, class, Tail(body))

\* lines 92-138: the chunks of one class
ClassChunks(f, s, lines, node) ==
    LET start == node.lineno
        end == node.end_lineno
        first == FirstLine(node.body, FALSE)
        class_header_end == IF first = 0 THEN start ELSE first - 1
        header == join(Slice(lines, start - 1, class_header_end))
    IN  IF (end - start) <= s.MAX_CHUNK_LINES
        THEN <<CodeChunk(f.file_path, <<node.name>>,
                         join(Slice(lines, start - 1, end)), "python", start, end)>>
        ELSE (IF Truthy(strip(header))
              THEN <<CodeChunk(f.file_path, <<node.name, ".<header>">>, header,
                               "python", start, class_header_end)>>
              ELSE <<>>)
             \o MethodChunks(f, lines, node, node.body)

\* lines 78-138: the chunks of the module's functions and classes
RECURSIVE NodeChunks(_, _, _, _)
NodeChunks(f, s, lines, body) ==
    IF body = <<>> THEN <<>>
    ELSE (IF IsDef(body[1])
          THEN <<CodeChunk(f.file_path, <<body[1].name>>,
                           join(Slice(lines, body[1].lineno - 1, body[1].end_lineno)),
                           "python", body[1].lineno, body[1].end_lineno)>>
          ELSE IF body[1].type = "ClassDef" THEN ClassChunks(f, s, lines, body[1])
          ELSE <<>>)
         \o NodeChunks(f, s, lines, Tail(body))

ParseAbsorbed(tree) == tree.exc = "SyntaxError"

chunk_python(f, s) ==
    LET lines == splitlines(f.content)
        tree == ast_parse(f.content)
    IN  IF ParseAbsorbed(tree) THEN [exc |-> "", chunks |-> <<>>]
        ELSE IF tree.exc # "" THEN [exc |-> tree.exc, chunks |-> <<>>]
        ELSE [exc |-> "",
              chunks |-> PythonPreamble(f, lines, tree.body)
                         \o NodeChunks(f, s, lines, tree.body)]

(***************************************************************************)
(* _chunk_javascript, lines 144-221.                                       *)
(***************************************************************************)
\* One of _JS_PATTERNS matches at the start of the line.
JsBoundary(l) == l.indent = 0 /\ l.body \in {"function f() {", "class C:"}

extract_js_symbol(l) == CASE l.body = "function f() {" -> <<"f">>
                          [] l.body = "class C:" -> <<"C">>
                          [] OTHER -> <<"<anonymous>">>

\* lines 163-171: the 0-based indices of the boundary lines, in order
RECURSIVE Boundaries(_, _)
Boundaries(lines, n) ==
    IF n > Len(lines) THEN <<>>
    ELSE (IF JsBoundary(lines[n]) THEN <<n - 1>> ELSE <<>>) \o Boundaries(lines, n + 1)

\* lines 178-189: the chunk of what stands before the first boundary
JsPreamble(f, lines, boundaries) ==
    LET preamble == strip(join(Slice(lines, 0, boundaries[1])))
    IN  IF boundaries[1] > 0 /\ Truthy(preamble) /\ Len(splitlines(preamble)) >= 2
        THEN <<CodeChunk(f.file_path, <<"<imports>">>, preamble, f.language,
                         1, boundaries[1])>>
        ELSE <<>>

\* line 194: the 0-based index of the last line of the chunk of boundary k
BoundaryEndAtNext(lines, boundaries, k) ==
    IF k + 1 <= Len(boundaries) THEN boundaries[k + 1] ELSE Len(lines) - 1

BoundaryEnd(lines, boundaries, k) ==
    IF k + 1 <= Len(boundaries) THEN boundaries[k + 1] - 1 ELSE Len(lines) - 1

\* lines 192-205: the chunks from each boundary to the next
RECURSIVE BoundaryChunks(_, _, _, _)
BoundaryChunks(f, lines, boundaries, k) ==
    IF k > Len(boundaries) THEN <<>>
    ELSE LET start == boundaries[k]
             end == BoundaryEnd(lines, boundaries, k)
             code == rstrip(join(Slice(lines, start, end + 1)))
         IN  (IF Truthy(strip(code))
              THEN <<CodeChunk(f.file_path, extract_js_symbol(lines[start + 1]), code,
                               f.language, start + 1, end + 1)>>
              ELSE <<>>)
             \o BoundaryChunks(f, lines, boundaries, k + 1)

chunk_javascript(f) ==
    LET lines == splitlines(f.content)
        boundaries == Boundaries(lines, 1)
    IN  IF lines = <<>> \/ boundaries = <<>> THEN <<>>
        ELSE JsPreamble(f, lines, boundaries) \o BoundaryChunks(f, lines, boundaries, 1)

(***************************************************************************)
(* chunk_file, lines 24-45, and _chunk_by_lines, lines 224-263, whose      *)
(* window loop is followed iteration by iteration.                         *)
(***************************************************************************)
NoInput == [file_path |-> "", content |-> <<Blank>>, language |-> ""]

NoFrame == [lines |-> <<>>, window |-> 0, i |-> 0, idx |-> 0, chunks |-> <<>>]

NoResult == [kind |-> "none", chunks |-> <<>>, exc |-> ""]

ChunkerIdle ==
    /\ cpc = "idle"
    /\ frame = NoFrame
    /\ result = NoResult

StoreKept == UNCHANGED <<collections, heap, files, pc, op, last, history, app>>

\* chunk_file returns the list cs.
ChunkReturn(cs) ==
    /\ cpc' = "idle"
    /\ frame' = NoFrame
    /\ result' = [kind |-> "list", chunks |-> cs, exc |-> ""]
    /\ UNCHANGED <<settings, file>>
    /\ StoreKept

\* Exception e leaves chunk_file.
ChunkRaise(e) ==
    /\ cpc' = "idle"
    /\ frame' = NoFrame
    /\ result' = [kind |-> "raise", chunks |-> <<>>, exc |-> e]
    /\ UNCHANGED <<settings, file>>
    /\ StoreKept

ChunkGoto(p) ==
    /\ cpc' = p
    /\ UNCHANGED <<settings, file, frame, result>>
    /\ StoreKept

\* chunk_file is called with the file.
ChunkFile ==
    /\ cpc = "idle"
    /\ file # NoInput
    /\ result = NoResult
    /\ ChunkGoto("python")

\* lines 30-34
ChunkPython ==
    /\ cpc = "python"
    /\ IF file.language = "python"
       THEN LET r == chunk_python(file, settings)
            IN  IF r.exc # "" THEN ChunkRaise(r.exc)
                ELSE IF r.chunks # <<>> THEN ChunkReturn(r.chunks)
                ELSE ChunkGoto("javascript")
       ELSE ChunkGoto("javascript")

\* lines 36-40
ChunkJavascript ==
    /\ cpc = "javascript"
    /\ IF file.language \in {"javascript", "typescript"}
          /\ chunk_javascript(file) # <<>>
       THEN ChunkReturn(chunk_javascript(file))
       ELSE ChunkGoto("lines")

\* lines 233-241: the chunk of a file that is small enough
WholeFileDropped(f, lines) == <<>>

WholeFileJoined(f, lines) ==
    <<CodeChunk(f.file_path, <<"<file>">>, join(lines), f.language, 1, Len(lines))>>

WholeFile(f, lines) ==
    <<CodeChunk(f.file_path, <<"<file>">>, f.content, f.language, 1, Len(lines))>>

\* lines 43, 228-247, and lines 44-45 when _chunk_by_lines returns at once
ChunkByLines ==
    /\ cpc = "lines"
    /\ LET lines == splitlines(file.content)
       IN  IF lines = <<>> THEN ChunkReturn(<<>>)
           ELSE IF Len(lines) <= settings.MAX_CHUNK_LINES
                THEN ChunkReturn(WholeFile(file, lines))
           ELSE /\ frame' = [lines |-> lines,
                             window |-> settings.FALLBACK_CHUNK_LINES,
                             i |-> 0, idx |-> 0, chunks |-> <<>>]
                /\ cpc' = "window"
                /\ UNCHANGED <<settings, file, result>>
                /\ StoreKept

\* line 260: where the next window starts
NextStartNoOverlap(i, window) == i + window

NextStart(i, window) == i + (window - overlap)

\* lines 249-261: one iteration of the loop
Window ==
    /\ cpc = "window"
    /\ frame.i < Len(frame.lines)
    /\ Len(frame.chunks) < MaxChunks
    /\ LET end == Min(frame.i + frame.window, Len(frame.lines))
           code == join(Slice(frame.lines, frame.i, end))
       IN  frame' = [frame EXCEPT
                       !.chunks = Append(@, CodeChunk(file.file_path,
                                                      <<"<block_">> \o Str(frame.idx) \o <<">">>,
                                                      code, file.language,
                                                      frame.i + 1, end)),
                       !.i = NextStart(@, frame.window),
                       !.idx = @ + 1]
    /\ UNCHANGED <<settings, file, cpc, result>>
    /\ StoreKept

\* lines 249, 263 and 44-45: the loop ends
WindowReturn ==
    /\ cpc = "window"
    /\ ~(frame.i < Len(frame.lines))
    /\ ChunkReturn(frame.chunks)

(***************************************************************************)
(* Specifications.  Spec runs the operations one at a time (the contract   *)
(* of each call); SpecConc lets the request threads interleave statement   *)
(* by statement (FastAPI runs sync handlers and background tasks on a      *)
(* thread pool).                                                           *)
(***************************************************************************)
(* services/retrieval.py: the chunks retrieve hands out and the context    *)
(* prompt built of them.  A string that is put together of parts is the    *)
(* sequence of its parts; an Optional[int] is <<>> for None and <<n>> for  *)
(* the integer n.                                                          *)
(***************************************************************************)
MaxRetrieved == 2    \* most chunks build_context_prompt is handed

None == <<>>

\* lines 52-62: the RetrievedChunk made of a stored entry
Fields(c) ==
    [file_path |-> c.meta.file_path, symbol |-> c.meta.symbol, code |-> c.code,
     language |-> c.meta.language, start_line |-> <<c.meta.start_line>>,
     end_line |-> <<c.meta.end_line>>]

Sentinels == {<<"<file>">>, <<"<module>">>, <<"<imports>">>}

Placeholder == [kind |-> "text", text |-> "No relevant code found in the repository.",
                sections |-> <<>>]

NoContext == [kind |-> "none", text |-> "", sections |-> <<>>]

\* lines 76-77
LinesShown(chunk) ==
    IF chunk.start_line # None /\ chunk.start_line[1] # 0
    THEN <<" (lines ">> \o Str(chunk.start_line[1]) \o <<"-">>
         \o (IF chunk.end_line = None THEN <<"None">> ELSE Str(chunk.end_line[1]))
         \o <<")">>
    ELSE <<>>

\* Mutant: every symbol is shown.
SymbolAlways(chunk) == <<" -> ">> \o chunk.symbol

\* lines 78-79 (the arrow is written " -> " here)
Symbol(chunk) ==
    IF chunk.symbol # <<>> /\ chunk.symbol \notin Sentinels
    THEN <<" -> ">> \o chunk.symbol
    ELSE <<>>

\* lines 75-79
Location(chunk) == <<chunk.file_path>> \o LinesShown(chunk) \o Symbol(chunk)

\* lines 80-83: the header line and, on the lines after it, the code
Section(i, chunk) ==
    [header |-> <<"--- [">> \o Str(i) \o <<"] ">> \o Location(chunk)
                \o <<" (", chunk.language, ") ---">>,
     code |-> chunk.code]

\* lines 68-85; the sections are joined by an empty line
build_context_prompt(chunks) ==
    IF chunks = <<>> THEN Placeholder
    ELSE [kind |-> "sections", text |-> "",
          sections |-> [i \in 1..Len(chunks) |-> Section(i, chunks[i])]]

(***************************************************************************)
(* services/embedding.py: the model is loaded by the first call that finds *)
(* _model unset.  The instances of SentenceTransformer are numbered in the *)
(* order of their construction; embedder.model is the module global _model *)
(* (NoModel: None), embedder.constructed counts the runs of the            *)
(* constructor, embedder.pc[t] is the position of thread t in embed_texts  *)
(* or embed_query (embedder.fn[t]), embedder.built[t] the instance thread  *)
(* t has constructed and embedder.got[t] the one _get_model returned to    *)
(* it.  The handlers and the ingestion task run on the threads of a pool,  *)
(* so the calls interleave.                                                *)
(***************************************************************************)
NoModel == 0

NoEmbedder ==
    [model |-> NoModel, constructed |-> 0,
     pc |-> [t \in Threads |-> "idle"], fn |-> [t \in Threads |-> "none"],
     built |-> [t \in Threads |-> NoModel], got |-> [t \in Threads |-> NoModel]]

EmbedderKeeps ==
    /\ UNCHANGED <<projects, ingest, request>>
    /\ UNCHANGED chunker
    /\ UNCHANGED <<collections, heap, files, pc, op, last>>

EmbedCall(t, fn) ==
    /\ embedder.pc[t] = "idle"
    /\ calls < MaxCalls
    /\ calls' = calls + 1
    /\ UNCHANGED done
    /\ embedder' = [embedder EXCEPT !.pc[t] = "check", !.fn[t] = fn,
                                    !.built[t] = NoModel, !.got[t] = NoModel]
    /\ EmbedderKeeps

\* line 31: embed_texts calls _get_model
EmbedTexts(t) == EmbedCall(t, "embed_texts")

\* line 47: embed_query calls _get_model
EmbedQuery(t) == EmbedCall(t, "embed_query")

\* line 18
GetModelCheck(t) ==
    /\ embedder.pc[t] = "check"
    /\ embedder' = [embedder EXCEPT
                       !.pc[t] = IF embedder.model = NoModel THEN "construct"
                                 ELSE "return"]
    /\ UNCHANGED history
    /\ EmbedderKeeps

\* lines 19-21: the constructor runs
GetModelConstruct(t) ==
    /\ embedder.pc[t] = "construct"
    /\ embedder' = [embedder EXCEPT !.pc[t] = "assign",
                                    !.constructed = @ + 1,
                                    !.built[t] = embedder.constructed + 1]
    /\ UNCHANGED history
    /\ EmbedderKeeps

\* lines 21-22: the instance is assigned to _model
GetModelAssign(t) ==
    /\ embedder.pc[t] = "assign"
    /\ embedder' = [embedder EXCEPT !.pc[t] = "return", !.model = embedder.built[t]]
    /\ UNCHANGED history
    /\ EmbedderKeeps

\* line 23
GetModelReturn(t) ==
    /\ embedder.pc[t] = "return"
    /\ embedder' = [embedder EXCEPT !.pc[t] = "encode", !.got[t] = embedder.model]
    /\ UNCHANGED history
    /\ EmbedderKeeps

\* lines 32-42 and 48-52: the model encodes, the call returns
ModelEncode(t) ==
    /\ embedder.pc[t] = "encode"
    /\ embedder' = [embedder EXCEPT !.pc[t] = "idle", !.fn[t] = "none"]
    /\ UNCHANGED history
    /\ EmbedderKeeps

(***************************************************************************)
(* The application around the store and the chunker: the upload endpoints  *)
(* and the ingestion task _process_repo (routers/upload.py), and the       *)
(* request handlers that retrieve (routers/chat.py, routers/edit.py).      *)
(*                                                                         *)
(*   projects: the rows of the projects in the relational store, as        *)
(*             committed, by project id (status "none": there is no row),  *)
(*             each with the chunk rows that mirror its chunks             *)
(*   ingest  : the position and locals of _process_repo, the attributes of *)
(*             its ORM object (obj) and the state of its session           *)
(*   request : the position and locals of one request handler              *)
(*                                                                         *)
(* The ingestion task runs add_chunks on thread 1 and the handler runs     *)
(* retrieve on thread 2, statement by statement as modelled above; one     *)
(* call of the vector store is in flight at a time here (SpecConc covers   *)
(* calls that overlap).                                                    *)
(***************************************************************************)
MaxFiles == 2        \* most files file discovery hands to one ingestion run

AppProject == 1

IngestThread == 1

RequestThread == 2

AppQueryVectors == {<<1, 0>>}

NoProject == [status |-> "none", source_type |-> "", total_files |-> 0,
              total_chunks |-> 0, rows |-> <<>>]

\* models.py: a new Project row
NewProject(source_type) ==
    [status |-> "processing", source_type |-> source_type, total_files |-> 0,
     total_chunks |-> 0, rows |-> <<>>]

\* The row of the project the ingestion task and the requests are about.
project == projects[AppProject]

\* Mutant: the update reaches every row of the table.
WriteAll(table, project_id, row) == [p \in Projects |-> row]

\* The row of project_id is written (the object was queried by its id,
\* upload.py line 29).
Write(table, project_id, row) == [table EXCEPT ![project_id] = row]

NoIngest ==
    [pc |-> "none", obj |-> NoProject, session |-> "active", files |-> <<>>, k |-> 0,
     all_chunks |-> <<>>, embeddings |-> <<>>, embedded |-> FALSE, stored |-> FALSE,
     raised |-> "none", exc |-> "none", escaped |-> FALSE]

NoRequest ==
    [kind |-> "none", pc |-> "idle", retrieved |-> "no", chunks |-> <<>>,
     context |-> NoContext, response |-> "none", data |-> FALSE]

AppIdle ==
    /\ projects = [p \in Projects |-> NoProject]
    /\ ingest = NoIngest
    /\ request = NoRequest
    /\ embedder = NoEmbedder

\* The files file discovery can hand over (relative paths are given by
\* position): an empty file, a one-line text file, a JavaScript file with two
\* boundaries, a Python file the parser gives up on.
SampleFiles ==
    {[content |-> <<Blank>>, language |-> "text"],
     [content |-> <<Line(0, "import os")>>, language |-> "text"],
     [content |-> <<Line(0, "function f() {"), Line(0, "class C:")>>,
      language |-> "javascript"],
     [content |-> <<Line(0, Deep)>>, language |-> "python"]}

RelativePaths == <<"src/a", "src/b", "src/c">>

Repos == {[k \in 1..Len(r) |-> [file_path |-> RelativePaths[k],
                                 content |-> r[k].content,
                                 language |-> r[k].language]] :
            r \in SeqsUpTo(SampleFiles, MaxFiles)}

\* embed_texts: the vector of one text (unit vectors, scaled as above)
Vector(c) == IF c.language = "text" THEN <<1, 0>> ELSE <<3, 4>>

\* Mutant: the id does not carry the position.
ChunkIdOfProject(project_id, i) == <<"chunk_">> \o Str(project_id)

\* upload.py line 67
ChunkId(project_id, i) == <<"chunk_">> \o Str(project_id) \o <<"_">> \o Str(i)

\* x or 0, for an integer x
OrZero(x) == IF x # 0 THEN x ELSE 0

\* upload.py lines 69-78
Metadata(c) ==
    [file_path |-> c.file_path, symbol |-> c.symbol, language |-> c.language,
     start_line |-> OrZero(c.start_line), end_line |-> OrZero(c.end_line)]

\* upload.py lines 82-92
ChunkRow(project_id, i, c) ==
    [project_id |-> project_id, file_path |-> c.file_path, symbol |-> c.symbol,
     content |-> c.code, language |-> c.language, start_line |-> c.start_line,
     end_line |-> c.end_line, chunk_index |-> i]

StoreUntouched == UNCHANGED <<collections, heap, files, pc, op, last, history, embedder>>

(***************************************************************************)
(* The upload endpoints create the row and schedule the task.              *)
(***************************************************************************)
Upload(source_type) ==
    /\ project.status = "none"
    /\ ingest.pc = "none"
    /\ projects' = Write(projects, AppProject, NewProject(source_type))
    /\ ingest' = [NoIngest EXCEPT !.pc = "start"]
    /\ UNCHANGED request
    /\ UNCHANGED chunker
    /\ StoreUntouched

\* lines 110-144
UploadGithub == Upload("github")

\* lines 147-184
UploadZip == Upload("zip")

(***************************************************************************)
(* _process_repo, lines 16-107.  db.commit() writes the attributes of the  *)
(* ORM object to the row, or raises; a commit that raised has written      *)
(* nothing, and leaves the session either rolled back (the object is       *)
(* reloaded from the row when next used) or unusable until a rollback that *)
(* the code never issues.                                                  *)
(***************************************************************************)
\* An exception leaves the try body at the given step.
IngestRaise(g, step, e) == [g EXCEPT !.pc = "handler", !.raised = step, !.exc = e]

\* Mutant: a commit that raises has written the row all the same.
CommitWritesThenRaises(g, p) ==
    \/ /\ projects' = Write(projects, AppProject, g.obj)
       /\ ingest' = [g EXCEPT !.pc = p]
    \/ /\ projects' = Write(projects, AppProject, g.obj)
       /\ \E s \in {"active", "broken"} :
             ingest' = IngestRaise([g EXCEPT !.session = s],
                                   "commit", "OperationalError")

\* db.commit() in the try body: g holds the object to write, p is the
\* position after it.
Commit(g, p) ==
    \/ /\ projects' = Write(projects, AppProject, g.obj)
       /\ ingest' = [g EXCEPT !.pc = p]
    \/ /\ UNCHANGED projects
       /\ \E s \in {"active", "broken"} :
             ingest' = IngestRaise([g EXCEPT !.session = s, !.obj = project],
                                   "commit", "OperationalError")

IngestKeeps ==
    /\ UNCHANGED request
    /\ UNCHANGED chunker
    /\ StoreUntouched

\* lines 24-31
IngestBegin ==
    /\ ingest.pc = "start"
    /\ IF project.status = "none"
       THEN ingest' = [ingest EXCEPT !.pc = "done"]
       ELSE ingest' = [ingest EXCEPT !.pc = "discover", !.obj = project]
    /\ UNCHANGED projects
    /\ IngestKeeps

\* lines 35-36: discover_files hands over one of the repositories R, or raises
Discover(R) ==
    /\ ingest.pc = "discover"
    /\ \/ \E r \in R :
            ingest' = [ingest EXCEPT !.pc = "commit_files", !.files = r,
                                     !.obj.total_files = Len(r)]
       \/ ingest' = IngestRaise(ingest, "discovery", "OSError")
    /\ UNCHANGED projects
    /\ IngestKeeps

IngestDiscover == Discover(Repos)

\* line 37
IngestCommitFiles ==
    /\ ingest.pc = "commit_files"
    /\ Commit(ingest, IF ingest.files = <<>> THEN "no_files" ELSE "chunk")
    /\ IngestKeeps

\* lines 39-43
IngestNoFiles ==
    /\ ingest.pc = "no_files"
    /\ Commit([ingest EXCEPT !.obj.status = "ready", !.obj.total_chunks = 0], "done")
    /\ IngestKeeps

\* lines 47-49: chunk_file is called with the next file
IngestChunkFile ==
    /\ ingest.pc = "chunk"
    /\ ingest.k < Len(ingest.files)
    /\ ingest' = [ingest EXCEPT !.pc = "chunking", !.k = @ + 1]
    /\ file' = ingest.files[ingest.k + 1]
    /\ cpc' = "idle"
    /\ frame' = NoFrame
    /\ result' = NoResult
    /\ UNCHANGED <<settings, projects, request>>
    /\ StoreUntouched

\* lines 49-50: chunk_file has returned or raised
IngestChunked ==
    /\ ingest.pc = "chunking"
    /\ cpc = "idle"
    /\ result.kind # "none"
    /\ IF result.kind = "raise"
       THEN ingest' = IngestRaise(ingest, "chunk", result.exc)
       ELSE ingest' = [ingest EXCEPT !.pc = "chunk",
                                     !.all_chunks = @ \o result.chunks]
    /\ UNCHANGED projects
    /\ IngestKeeps

\* lines 52-55
IngestNoChunks ==
    /\ ingest.pc = "chunk"
    /\ ingest.k = Len(ingest.files)
    /\ ingest.all_chunks = <<>>
    /\ Commit([ingest EXCEPT !.obj.status = "ready"], "done")
    /\ IngestKeeps

\* Mutant: the embedder is called whatever the number of chunks.
IngestEmbedUnguarded ==
    /\ ingest.pc = "chunk"
    /\ ingest.k = Len(ingest.files)
    /\ \/ ingest' = [ingest EXCEPT !.pc = "store", !.embedded = TRUE,
                        !.embeddings = [i \in 1..Len(ingest.all_chunks) |->
                                           Vector(ingest.all_chunks[i])]]
       \/ ingest' = IngestRaise([ingest EXCEPT !.embedded = TRUE], "embed",
                                "RuntimeError")
    /\ UNCHANGED projects
    /\ IngestKeeps

\* lines 52, 58-63
IngestEmbed ==
    /\ ingest.pc = "chunk"
    /\ ingest.k = Len(ingest.files)
    /\ ingest.all_chunks # <<>>
    /\ \/ ingest' = [ingest EXCEPT !.pc = "store", !.embedded = TRUE,
                        !.embeddings = [i \in 1..Len(ingest.all_chunks) |->
                                           Vector(ingest.all_chunks[i])]]
       \/ ingest' = IngestRaise([ingest EXCEPT !.embedded = TRUE], "embed",
                                "RuntimeError")
    /\ UNCHANGED projects
    /\ IngestKeeps

\* lines 66-79: add_chunks is called
IngestAdd ==
    /\ ingest.pc = "store"
    /\ Call(IngestThread, "load",
            [Begin("add", AppProject) EXCEPT
                !.ids = [i \in 1..Len(ingest.all_chunks) |-> ChunkId(AppProject, i - 1)],
                !.documents = [i \in 1..Len(ingest.all_chunks) |->
                                  ingest.all_chunks[i].code],
                !.embeddings = ingest.embeddings,
                !.metadatas = [i \in 1..Len(ingest.all_chunks) |->
                                  Metadata(ingest.all_chunks[i])]])
    /\ ingest' = [ingest EXCEPT !.pc = "storing", !.stored = TRUE]
    /\ UNCHANGED <<history, projects, request, embedder>>

\* add_chunks is called while no other call of the store is running
IngestStore == AllIdle /\ IngestAdd

\* line 79: add_chunks has returned or raised
IngestStored ==
    /\ ingest.pc = "storing"
    /\ last.name = "add"
    /\ last.pid = AppProject
    /\ last' = IdleOp
    /\ IF last.outcome = "raise"
       THEN ingest' = IngestRaise(ingest, "store", last.exc)
       ELSE ingest' = [ingest EXCEPT !.pc = "rows"]
    /\ UNCHANGED <<collections, heap, files, pc, op, history, chunker, projects, request, embedder>>

\* Mutant: the rows and the status are written, the count is not.
IngestRowsUncounted ==
    /\ ingest.pc = "rows"
    /\ Commit([ingest EXCEPT
                  !.obj.rows = [i \in 1..Len(ingest.all_chunks) |->
                                   ChunkRow(AppProject, i - 1, ingest.all_chunks[i])],
                  !.obj.status = "ready"], "done")
    /\ IngestKeeps

\* lines 81-97
IngestRows ==
    /\ ingest.pc = "rows"
    /\ Commit([ingest EXCEPT
                  !.obj.rows = [i \in 1..Len(ingest.all_chunks) |->
                                   ChunkRow(AppProject, i - 1, ingest.all_chunks[i])],
                  !.obj.total_chunks = Len(ingest.all_chunks),
                  !.obj.status = "ready"], "done")
    /\ IngestKeeps

\* lines 102-105 with a session that can be used
HandlerRecords(g) == [g EXCEPT !.pc = "done", !.obj = [project EXCEPT !.status = "error"]]

\* lines 99-107: the handler of the try body.  The query of line 102
\* raises when the session cannot be used, and the commit of line 105
\* writes the status or raises in its turn; either exception leaves
\* _process_repo.
IngestHandler ==
    /\ ingest.pc = "handler"
    /\ IF ingest.session = "broken"
       THEN /\ ingest' = [ingest EXCEPT !.pc = "done", !.escaped = TRUE]
            /\ UNCHANGED projects
       ELSE \/ /\ ingest' = HandlerRecords(ingest)
               /\ projects' = Write(projects, AppProject, ingest'.obj)
            \/ /\ ingest' = [ingest EXCEPT !.pc = "done", !.escaped = TRUE,
                                            !.exc = "OperationalError"]
               /\ UNCHANGED projects
    /\ IngestKeeps

(***************************************************************************)
(* The request handlers: chat_with_project (routers/chat.py), edit_file    *)
(* and apply_edit (routers/edit.py).  request.retrieved is the status the  *)
(* project had when the handler called retrieve ("no": it did not).        *)
(***************************************************************************)
RequestKeeps ==
    /\ UNCHANGED <<projects, ingest>>
    /\ UNCHANGED chunker
    /\ StoreUntouched

Respond(kind, code) ==
    request' = [NoRequest EXCEPT !.kind = kind, !.response = code]

Enter(kind) == request' = [NoRequest EXCEPT !.kind = kind, !.pc = "retrieve"]

\* chat.py lines 29-42
ChatWithProject ==
    /\ request.pc = "idle"
    /\ CASE project.status = "none" -> Respond("chat", "404")
         [] project.status # "ready" -> Respond("chat", "400")
         [] OTHER -> Enter("chat")
    /\ RequestKeeps

\* edit.py lines 34-57: the project, its status, the file
EditFile ==
    /\ request.pc = "idle"
    /\ CASE project.status = "none" -> Respond("edit", "404")
         [] project.status # "ready" -> Respond("edit", "400")
         [] OTHER -> \/ Respond("edit", "404")
                     \/ Respond("edit", "500")
                     \/ Enter("edit")
    /\ RequestKeeps

\* edit.py lines 86-105: the project, the file
ApplyEdit ==
    /\ request.pc = "idle"
    /\ IF project.status = "none" THEN Respond("apply", "404")
       ELSE \/ Respond("apply", "404")
            \/ Respond("apply", "500")
            \/ Enter("apply")
    /\ RequestKeeps

\* chat.py line 45, edit.py lines 60 and 107: retrieve is called
Retrieve ==
    /\ request.pc = "retrieve"
    /\ AllIdle
    /\ StartRetrieve(RequestThread, {AppProject}, AppQueryVectors)
    /\ request' = [request EXCEPT !.pc = "retrieving", !.retrieved = project.status]
    /\ UNCHANGED <<history, projects, ingest, embedder>>

\* retrieve has returned or raised
Retrieved ==
    /\ request.pc = "retrieving"
    /\ last.name = "retrieve"
    /\ last' = IdleOp
    /\ IF last.outcome = "raise"
       THEN request' = [request EXCEPT !.pc = "idle", !.response = "500"]
       ELSE request' = [request EXCEPT !.pc = "context",
                           !.chunks = [i \in 1..Len(last.chunks) |->
                                          Fields(last.chunks[i])]]
    /\ UNCHANGED <<collections, heap, files, pc, op, history, chunker, projects, ingest, embedder>>

\* chat.py line 48, edit.py lines 61 and 108
BuildContext ==
    /\ request.pc = "context"
    /\ request' = [request EXCEPT !.pc = "llm",
                                  !.context = build_context_prompt(request.chunks)]
    /\ RequestKeeps

\* chat.py lines 51-77, edit.py lines 64-83 and 110-127: the language model
\* answers or fails; chat and edit_file return what it made of the context,
\* apply_edit writes the file and returns a message.
Answer ==
    /\ request.pc = "llm"
    /\ \/ request' = [request EXCEPT !.pc = "idle", !.response = "500"]
       \/ request' = [request EXCEPT !.pc = "idle", !.response = "200",
                                     !.data = (request.kind # "apply")]
    /\ RequestKeeps

(***************************************************************************)
vars == <<collections, heap, files, pc, op, last, history, chunker, app>>

InitStore ==
    /\ collections = [p \in Projects |-> NoRef]
    /\ heap = [p \in Projects |-> [i \in ObjIds |-> Free]]
    /\ files = [p \in Projects |-> NoFile]
    /\ pc = [t \in Threads |-> "idle"]
    /\ op = [t \in Threads |-> IdleOp]
    /\ last = IdleOp
    /\ calls = 0
    /\ done = <<>>

Init ==
    /\ InitStore
    /\ settings = DefaultSettings
    /\ file = NoInput
    /\ ChunkerIdle
    /\ AppIdle

Statement(t) ==
    \/ LoadCheck(t) \/ LoadRead(t) \/ LoadStore(t)
    \/ ExtendIds(t) \/ ExtendDocuments(t) \/ ExtendEmbeddings(t) \/ ExtendMetadatas(t)
    \/ SaveGet(t) \/ SaveOpen(t) \/ SaveDump(t)
    \/ DeleteExists(t) \/ DeleteRemove(t) \/ DeletePop(t)
    \/ QueryCheck(t) \/ QuerySimilarities(t) \/ QueryTop(t)
    \/ QueryIds(t) \/ QueryDocuments(t) \/ QueryMetadatas(t) \/ QueryDistances(t)
    \/ RetrieveMap(t)

\* One call at a time, on one thread.
Next ==
    \/ AllIdle /\ StartAdd(1, Projects, Batches) /\ UNCHANGED <<history, app>>
    \/ AllIdle /\ StartQuery(1, Projects, QueryVectors, TopKs) /\ UNCHANGED <<history, app>>
    \/ AllIdle /\ StartRetrieve(1, Projects, QueryVectors) /\ UNCHANGED <<history, app>>
    \/ AllIdle /\ StartDelete(1, Projects) /\ UNCHANGED <<history, app>>
    \/ \E t \in Threads : Statement(t)
    \/ Resume
    \/ Restart

Spec == Init /\ [][Next]_vars

(***************************************************************************)
(* Concurrent requests on one project: every thread may begin a call       *)
(* whenever it is idle, and the statements of the running calls            *)
(* interleave.  Queries arrive through retrieve, as they do in the routers.*)
(***************************************************************************)
ConcProjects == {1}
ConcBatches == {<<1>>, <<3>>}
ConcQueryVectors == {<<1, 0>>}

Counted == calls < MaxCalls /\ calls' = calls + 1 /\ UNCHANGED <<done, app>>

NextConc ==
    \/ \E t \in Threads : StartAdd(t, ConcProjects, ConcBatches) /\ Counted
    \/ \E t \in Threads : StartRetrieve(t, ConcProjects, ConcQueryVectors) /\ Counted
    \/ \E t \in Threads : StartDelete(t, ConcProjects) /\ Counted
    \/ \E t \in Threads : Statement(t)
    \/ Resume
    \/ Restart

SpecConc == Init /\ [][NextConc]_vars

(***************************************************************************)
(* The same requests, with the calls that have ended on record: the caller *)
(* of a call that has ended notes what it was given.                       *)
(***************************************************************************)
Outcome(o) ==
    [name |-> o.name, pid |-> o.pid, ids |-> o.ids, outcome |-> o.outcome,
     exc |-> o.exc, result_ids |-> o.result_ids]

Completed ==
    /\ last.name # "none"
    /\ done' = Append(done, Outcome(last))
    /\ last' = IdleOp
    /\ UNCHANGED <<collections, heap, files, pc, op, calls, chunker, app>>

NextRace ==
    \/ \E t \in Threads : StartAdd(t, ConcProjects, ConcBatches) /\ Counted
    \/ \E t \in Threads : StartRetrieve(t, ConcProjects, ConcQueryVectors) /\ Counted
    \/ \E t \in Threads : StartDelete(t, ConcProjects) /\ Counted
    \/ \E t \in Threads : Statement(t)
    \/ Completed

SpecRace == Init /\ [][NextRace]_vars

(***************************************************************************)
(* The chunker on its own: chunk_file applied to one file.                  *)
(***************************************************************************)
\* The process starts with some configuration and is handed some file.
InitChunk ==
    /\ InitStore
    /\ settings \in SettingsSet
    /\ file \in Files
    /\ ChunkerIdle
    /\ AppIdle

NextChunk ==
    \/ ChunkFile
    \/ ChunkPython
    \/ ChunkJavascript
    \/ ChunkByLines
    \/ Window
    \/ WindowReturn

SpecChunk == InitChunk /\ [][NextChunk]_vars

(***************************************************************************)
(* The application: one project is uploaded and ingested while requests    *)
(* for it arrive.                                                          *)
(***************************************************************************)
\* The statements of add_chunks and retrieve.
AppStatement(t) ==
    \/ LoadCheck(t) \/ LoadRead(t) \/ LoadStore(t)
    \/ ExtendIds(t) \/ ExtendDocuments(t) \/ ExtendEmbeddings(t) \/ ExtendMetadatas(t)
    \/ SaveGet(t) \/ SaveOpen(t) \/ SaveDump(t)
    \/ QueryCheck(t) \/ QuerySimilarities(t) \/ QueryTop(t)
    \/ QueryIds(t) \/ QueryDocuments(t) \/ QueryMetadatas(t) \/ QueryDistances(t)
    \/ RetrieveMap(t)

InitApp ==
    /\ InitStore
    /\ settings = DefaultSettings
    /\ file = NoInput
    /\ ChunkerIdle
    /\ AppIdle

NextApp ==
    \/ UploadGithub
    \/ UploadZip
    \/ IngestBegin
    \/ IngestDiscover
    \/ IngestCommitFiles
    \/ IngestNoFiles
    \/ IngestChunkFile
    \/ ChunkFile
    \/ ChunkPython
    \/ ChunkJavascript
    \/ ChunkByLines
    \/ IngestChunked
    \/ IngestNoChunks
    \/ IngestEmbed
    \/ IngestStore
    \/ IngestStored
    \/ IngestRows
    \/ IngestHandler
    \/ ChatWithProject
    \/ EditFile
    \/ ApplyEdit
    \/ Retrieve
    \/ Retrieved
    \/ BuildContext
    \/ Answer
    \/ \E t \in Threads : AppStatement(t)

SpecApp == InitApp /\ [][NextApp]_vars

(***************************************************************************)
(* The application with the scheduling the thread pool gives: a step of    *)
(* the ingestion task that can be taken is taken, every call of a          *)
(* collaborator returns or raises, and a call of the vector store that has *)
(* begun runs to its end.  The task is not kept from add_chunks for ever   *)
(* by the requests that retrieve (no call waits for another in the code).  *)
(***************************************************************************)
IngestStep ==
    \/ IngestBegin
    \/ IngestDiscover
    \/ IngestCommitFiles
    \/ IngestNoFiles
    \/ IngestChunkFile
    \/ ChunkFile
    \/ ChunkPython
    \/ ChunkJavascript
    \/ ChunkByLines
    \/ IngestChunked
    \/ IngestNoChunks
    \/ IngestEmbed
    \/ IngestStored
    \/ IngestRows
    \/ IngestHandler

FairApp ==
    /\ WF_vars(IngestStep)
    /\ SF_vars(IngestStore)
    /\ WF_vars(Retrieved)
    /\ \A t \in Threads : WF_vars(AppStatement(t))

SpecAppFair == SpecApp /\ FairApp

(***************************************************************************)
(* Two projects.  The ingestion task of project AppProject runs on one     *)
(* thread while the other thread serves project SecondProject: its row is  *)
(* created by an upload, and chunks are added to, retrieved from and       *)
(* deleted from its collection.  The calls of the two threads overlap.     *)
(***************************************************************************)
SecondProject == 2

\* The repositories discovered in this setting: at most one file.
TwoRepos == {r \in Repos : Len(r) <= 1}

IngestDiscoverTwo == Discover(TwoRepos)

\* lines 110-144, 147-184: the row of the second project is created (its
\* ingestion task is not followed)
UploadSecond ==
    /\ projects[SecondProject].status = "none"
    /\ \E source_type \in {"github", "zip"} :
          projects' = Write(projects, SecondProject, NewProject(source_type))
    /\ UNCHANGED <<ingest, request, embedder>>
    /\ UNCHANGED chunker
    /\ StoreUntouched

\* The call of thread t that ends hands its result over once the result
\* before it is taken.
TakesTurn(t) == pc'[t] = "idle" => last.name = "none"

\* The caller of the second project's call takes its result.
ResumeSecond == last.pid = SecondProject /\ Resume

\* What the thread of the ingestion task does.
StepOfFirst ==
    \/ UploadGithub
    \/ UploadZip
    \/ IngestBegin
    \/ IngestDiscoverTwo
    \/ IngestCommitFiles
    \/ IngestNoFiles
    \/ IngestChunkFile
    \/ ChunkFile
    \/ ChunkPython
    \/ ChunkJavascript
    \/ ChunkByLines
    \/ IngestChunked
    \/ IngestNoChunks
    \/ IngestEmbed
    \/ IngestAdd
    \/ IngestStored
    \/ IngestRows
    \/ IngestHandler
    \/ Statement(IngestThread) /\ TakesTurn(IngestThread)

\* What the thread that serves the second project does.
StepOfSecond ==
    \/ UploadSecond
    \/ StartAdd(RequestThread, {SecondProject}, ConcBatches) /\ Counted
    \/ StartRetrieve(RequestThread, {SecondProject}, ConcQueryVectors) /\ Counted
    \/ StartDelete(RequestThread, {SecondProject}) /\ Counted
    \/ Statement(RequestThread) /\ TakesTurn(RequestThread)
    \/ ResumeSecond

NextTwo == StepOfFirst \/ StepOfSecond

SpecTwo == InitApp /\ [][NextTwo]_vars

(***************************************************************************)
(* build_context_prompt on its own, applied to one list of chunks.         *)
(***************************************************************************)
PromptChunks ==
    [file_path : {"src/a"},
     symbol : {<<"<file>">>, <<"<module>">>, <<"<imports>">>, <<"f">>,
               <<"C", ".", "f">>, <<"unknown">>},
     code : {<<Line(0, "import os")>>, <<Line(0, "def f():"), Line(1, "x = 1")>>},
     language : {"python"},
     start_line : {None, <<0>>, <<1>>},
     end_line : {None, <<2>>}]

InitPrompt ==
    /\ InitStore
    /\ settings = DefaultSettings
    /\ file = NoInput
    /\ ChunkerIdle
    /\ projects = [p \in Projects |-> NoProject]
    /\ ingest = NoIngest
    /\ embedder = NoEmbedder
    /\ \E cs \in SeqsUpTo(PromptChunks, MaxRetrieved) :
          request = [NoRequest EXCEPT !.pc = "context", !.chunks = cs]

NextPrompt == BuildContext

SpecPrompt == InitPrompt /\ [][NextPrompt]_vars

(***************************************************************************)
(* The embedding service on its own: the threads call embed_texts and      *)
(* embed_query.                                                            *)
(***************************************************************************)
NextEmbed ==
    \/ \E t \in Threads : EmbedTexts(t)
    \/ \E t \in Threads : EmbedQuery(t)
    \/ \E t \in Threads : GetModelCheck(t)
    \/ \E t \in Threads : GetModelConstruct(t)
    \/ \E t \in Threads : GetModelAssign(t)
    \/ \E t \in Threads : GetModelReturn(t)
    \/ \E t \in Threads : ModelEncode(t)

SpecEmbed == InitApp /\ [][NextEmbed]_vars

(***************************************************************************)
(* Properties of the vector store.  They are stated about the call whose   *)
(* result is in `last`: its arguments, the collection it began with (pre)  *)
(* and what it handed back.                                                *)
(***************************************************************************)
Queried == last.name \in {"query", "retrieve"}

Range(s) == {s[i] : i \in 1..Len(s)}

\* The similarity of the stored entry at index x of the collection the call
\* began with, to the query vector of the call.
PreSimilarity(x) == Similarity(last.pre.embeddings[x], last.query_embedding)

ResultLength(n) ==
    /\ Len(last.result_ids) = n
    /\ Len(last.result_docs) = n
    /\ Len(last.result_metas) = n
    /\ Len(last.result_distances) = n

\* C1: for a collection of N >= 0 entries and top_k = k >= 0, query_chunks
\* returns without raising, and its result holds exactly min(k, N) entries.
C1_QueryReturnsMinKN ==
    Queried =>
        /\ last.outcome = "ok"
        /\ ResultLength(Min(last.top_k, Len(last.pre.embeddings)))

\* C2: the entries query_chunks returns are in order of non-decreasing
\* distance, none of them is farther from the query than a stored entry that
\* was not returned, and the i-th id, document, metadata and distance belong
\* to one and the same stored entry.
C2_ExactTopKInOrder ==
    (Queried /\ last.outcome = "ok" /\ last.pre.embeddings # <<>>) =>
        LET n == Len(last.top_indices)
            returned == Range(last.top_indices)
        IN  /\ ResultLength(n)
            /\ returned \subseteq 1..Len(last.pre.ids)
            /\ Cardinality(returned) = n
            /\ \A i, j \in 1..n :
                  i < j => last.result_distances[i] <= last.result_distances[j]
            /\ \A i \in 1..n :
                  LET x == last.top_indices[i] IN
                  /\ last.result_ids[i] = last.pre.ids[x]
                  /\ last.result_docs[i] = last.pre.documents[x]
                  /\ last.result_metas[i] = last.pre.metadatas[x]
                  /\ last.result_distances[i] = 25 - PreSimilarity(x)
            /\ \A i \in 1..n : \A x \in (1..Len(last.pre.ids)) \ returned :
                  last.result_distances[i] <= 25 - PreSimilarity(x)

\* Three entries are stored, two are returned, the nearer one first.
C2_Witness ==
    /\ Queried /\ last.outcome = "ok"
    /\ Len(last.pre.ids) = 3
    /\ Len(last.result_ids) = 2
    /\ last.result_distances[1] < last.result_distances[2]

\* C3: stored entries of equal similarity are returned in insertion order
\* (the entry appended earlier first), and when the top_k cut falls inside a
\* group of tied entries, the earlier-inserted ones are the ones returned.
C3_TiesInInsertionOrder ==
    (Queried /\ last.outcome = "ok"
             /\ Cardinality(Range(last.pre.ids)) = Len(last.pre.ids)) =>
        LET n == Len(last.top_indices)
            returned == Range(last.top_indices)
        IN  /\ \A i, j \in 1..n :
                  (i < j /\ PreSimilarity(last.top_indices[i])
                            = PreSimilarity(last.top_indices[j]))
                  => last.top_indices[i] < last.top_indices[j]
            /\ \A i \in 1..n : \A x \in (1..Len(last.pre.ids)) \ returned :
                  PreSimilarity(x) = PreSimilarity(last.top_indices[i])
                  => last.top_indices[i] < x

\* C4: a query (query_chunks, or retrieve built on it) on a project whose
\* collection does not exist or holds no entries returns the empty result
\* and does not raise.
C4_EmptyCollectionEmptyResult ==
    (Queried /\ last.pre.ids = <<>>) =>
        /\ last.outcome = "ok"
        /\ ResultLength(0)
        /\ last.chunks = <<>>

\* retrieve has returned for a project with neither cache entry nor file.
C4_Witness ==
    /\ last.name = "retrieve" /\ last.outcome = "ok"
    /\ ~last.pre_cached /\ last.pre_file = NoFile
    /\ last.chunks = <<>>

\* C5: an add of n entries whose ids are not among the stored ids grows the
\* collection by exactly n, the new entries after all the old ones in the
\* order given, every old entry unchanged and at its old position.
C5_AddAppends ==
    (last.name = "add" /\ Range(last.ids) \cap Range(last.pre.ids) = {}) =>
        /\ last.outcome = "ok"
        /\ Stored(last.pid) = Dict("coll",
                                   last.pre.ids \o last.ids,
                                   last.pre.documents \o last.documents,
                                   last.pre.embeddings \o last.embeddings,
                                   last.pre.metadatas \o last.metadatas)

\* Two new entries were added to a collection that held some already.
C5_Witness ==
    /\ last.name = "add" /\ last.outcome = "ok"
    /\ Len(last.ids) = 2 /\ Len(last.pre.ids) >= 1
    /\ Range(last.ids) \cap Range(last.pre.ids) = {}
    /\ Len(Stored(last.pid).ids) = Len(last.pre.ids) + 2

EqualLength(d) ==
    /\ Len(d.ids) = Len(d.documents)
    /\ Len(d.ids) = Len(d.embeddings)
    /\ Len(d.ids) = Len(d.metadatas)

QueryPositions == {"q_check", "q_sims", "q_top", "q_ids", "q_docs", "q_metas", "q_dists"}

\* C6: the four sequences of a collection have equal length in every state
\* an operation can observe, the states a query sees while an add on the
\* same project runs included.
C6_EqualLengthWhenObserved ==
    \A t \in Threads : pc[t] \in QueryPositions => EqualLength(Coll(t))

\* C7: once delete_collection(p) has returned, p has neither a cache entry
\* nor a file, so that the next load starts from the empty collection; and a
\* delete of a project that has neither does not raise and changes nothing.
C7_DeleteRemovesAll ==
    /\ [](last.name = "delete" =>
            /\ last.outcome = "ok"
            /\ collections[last.pid] = NoRef
            /\ files[last.pid] = NoFile
            /\ Stored(last.pid) = EmptyColl)
    /\ [][\A t \in Threads :
            (op[t].name = "delete" /\ ~op[t].pre_cached /\ op[t].pre_file = NoFile)
            => UNCHANGED <<collections, heap, files>>]_vars

\* A delete has returned for a project that had entries in cache and file.
C7_Witness ==
    /\ last.name = "delete" /\ last.outcome = "ok"
    /\ last.pre_cached /\ last.pre_file.kind = "json"
    /\ last.pre.ids # <<>>

\* C8: when an add has returned, the file of the project holds exactly the
\* four sequences of the cached collection: loading the file into an empty
\* cache gives the same ids, documents, embeddings and metadatas in order.
C8_AddPersists ==
    (last.name = "add" /\ last.outcome = "ok") =>
        LET p == last.pid IN
        /\ collections[p] # NoRef
        /\ files[p].kind = "json"
        /\ Loaded(files[p]).kind = "coll"
        /\ Loaded(files[p]) = heap[p][collections[p]]

\* An add of new entries has returned for a collection loaded from its file.
C8_Witness ==
    /\ last.name = "add" /\ last.outcome = "ok"
    /\ ~last.pre_cached /\ last.pre_file.kind = "json"
    /\ last.pre.ids # <<>> /\ last.ids # <<>>
    /\ files[last.pid].data.ids = last.pre.ids \o last.ids

(***************************************************************************)
(* Properties of the chunker.  They are stated about the call of           *)
(* chunk_file whose outcome is in `result`, for the file in `file`.        *)
(***************************************************************************)
\* C9: chunk_file never raises, whatever the file: a failure of the
\* structured Python strategy, of any kind and not only a syntax error, is
\* absorbed, so no call of chunk_file ends with an exception.
C9_ChunkFileNeverRaises == result.kind # "raise"

FromWindows ==
    /\ result.kind = "list"
    /\ result.chunks # <<>>
    /\ result.chunks[1].symbol[1] = "<block_"

LineRange(c) == c.start_line..c.end_line

\* The lines two chunks have in common.
Shared(c, d) == Cardinality(LineRange(c) \cap LineRange(d))

WindowsNamedAndCovering ==
    LET cs == result.chunks
    IN  /\ \A k \in 1..Len(cs) : cs[k].symbol = <<"<block_">> \o Str(k - 1) \o <<">">>
        /\ UNION {LineRange(cs[k]) : k \in 1..Len(cs)}
             = 1..Len(splitlines(file.content))

\* C11: when the fixed-window fallback splits a file (window W,
\* overlap V < W), every two consecutive chunks, the pair that ends in the
\* final chunk left aside, share exactly V lines; the chunks are named
\* <block_0>, <block_1>, ... in order and their line ranges together are
\* exactly lines 1 to the last line of the file.
C11_WindowsOverlapByV ==
    FromWindows =>
        /\ WindowsNamedAndCovering
        /\ \A k \in 1..(Len(result.chunks) - 2) :
               Shared(result.chunks[k], result.chunks[k + 1]) = overlap

\* What the structured and heuristic strategies of chunk_file yield for f.
Structured(f, s) ==
    IF f.language = "python" THEN chunk_python(f, s).chunks
    ELSE IF f.language \in {"javascript", "typescript"} THEN chunk_javascript(f)
    ELSE <<>>

\* chunk_file has returned what the fixed-window fallback gave.
ByLines == result.kind = "list" /\ Structured(file, settings) = <<>>

LineCount == Len(splitlines(file.content))

OneFileChunk ==
    /\ Len(result.chunks) = 1
    /\ result.chunks[1].symbol = <<"<file>">>
    /\ result.chunks[1].start_line = 1
    /\ result.chunks[1].end_line = LineCount
    /\ result.chunks[1].code = file.content

C13_CodeIsLineRange ==
    result.kind = "list" =>
        \A k \in 1..Len(result.chunks) :
            LET c == result.chunks[k]
            IN  /\ 1 <= c.start_line
                /\ c.start_line <= c.end_line
                /\ c.end_line <= LineCount
                /\ c.code = join(Slice(splitlines(file.content), c.start_line - 1,
                                       c.end_line))

\* Chunks c and d are the header or methods of one class that was split.
OfSplitClass(c) == Len(c.symbol) >= 2 /\ c.symbol[2] \in {".", ".<header>"}

SplitPair(c, d) == OfSplitClass(c) /\ OfSplitClass(d) /\ c.symbol[1] = d.symbol[1]

InFileOrder ==
    \A j, k \in 1..Len(result.chunks) :
        j < k => result.chunks[j].start_line <= result.chunks[k].start_line

Disjoint ==
    \A j, k \in 1..Len(result.chunks) :
        j < k => \/ LineRange(result.chunks[j]) \cap LineRange(result.chunks[k]) = {}
                 \/ SplitPair(result.chunks[j], result.chunks[k])

\* C14 as stated: the chunks chunk_file returns for a file are in file order
\* (start_line never decreases along the list) and no two of them have a line
\* in common, header and method chunks of one split class excepted.
C14_OrderedAndDisjoint == result.kind = "list" => (InFileOrder /\ Disjoint)

\* C14: the chunks chunk_file returns for a file are in file order
\* (start_line never decreases along the list); unless they are the windows
\* of the fixed-window fallback, which overlap, no two of them have a line in
\* common, header and method chunks of one split class excepted.
C14_OrderedAndDisjointUnlessWindows ==
    result.kind = "list" => (InFileOrder /\ (FromWindows \/ Disjoint))

\* A file with two heuristic boundaries has come back as two chunks.
C14_Witness ==
    /\ result.kind = "list"
    /\ file.language = "javascript"
    /\ Len(result.chunks) = 2
    /\ result.chunks[1].symbol = <<"f">>
    /\ result.chunks[2].symbol = <<"C">>

(***************************************************************************)
(* The life of a project                                                   *)
(***************************************************************************)
\* C15: the status of a project is processing, ready or error; it changes
\* only from processing to ready or from processing to error, and no
\* operation changes a status that is ready or error.
C15_StatusTransitions ==
    [][/\ project.status' \in {"none", "processing", "ready", "error"}
       /\ project.status # "none" /\ project.status' # project.status
            => /\ project.status = "processing"
               /\ project.status' \in {"ready", "error"}]_vars

\* A request is under way after the ingestion has ended.
C15_Witness ==
    /\ project.status \in {"ready", "error"}
    /\ ingest.pc = "done"
    /\ request.pc = "llm"

\* C16: an ingestion that finds no file, or no chunk in its files, and in
\* which no step raises, ends with the project ready and total_chunks = 0
\* (and total_files = 0 when there is no file), has called neither the
\* embedder nor the vector store, and leaves the collection of the project
\* empty and without a file.
C16_NothingToIndex ==
    /\ ingest.pc = "done"
    /\ ingest.raised = "none"
    /\ ingest.files = <<>> \/ (ingest.k = Len(ingest.files) /\ ingest.all_chunks = <<>>)
    => /\ project.status = "ready"
       /\ project.total_chunks = 0
       /\ ingest.files = <<>> => project.total_files = 0
       /\ ~ingest.embedded
       /\ ~ingest.stored
       /\ Stored(AppProject) = EmptyColl
       /\ files[AppProject] = NoFile

\* Files were found, and none of them held a chunk.
C16_Witness ==
    /\ ingest.pc = "done"
    /\ ingest.raised = "none"
    /\ ingest.files # <<>>
    /\ ingest.all_chunks = <<>>
    /\ project.status = "ready"

\* C17: when a step of an ingestion run has raised, the run ends with the
\* status error; no later step of the run is executed, and the status is
\* never ready.
C17_RaisedRunEndsInError ==
    ingest.raised # "none"
    => /\ project.status # "ready"
       /\ ingest.raised \in {"discovery", "chunk"} => ~ingest.embedded
       /\ ingest.raised \in {"discovery", "chunk", "embed"} => ~ingest.stored
       /\ ingest.pc = "done" => project.status = "error"

\* C19: no handler calls retrieve for a project that is not ready, and none
\* returns data made of its chunks.
C19_NoRetrievalUnlessReady ==
    /\ request.retrieved \in {"no", "ready"}
    /\ request.data => request.retrieved = "ready"

(***************************************************************************)
(* The context prompt                                                      *)
(***************************************************************************)
Contains(s, sub) ==
    \E k \in 0..(Len(s) - Len(sub)) : SubSeq(s, k + 1, k + Len(sub)) = sub

StartsWith(s, prefix) ==
    Len(prefix) <= Len(s) /\ SubSeq(s, 1, Len(prefix)) = prefix

\* C18: build_context_prompt yields the fixed non-empty placeholder for the
\* empty list, and for n chunks n sections in the order of the chunks, the
\* i-th with the number i, the file path and the code of the i-th chunk, its
\* symbol unless that is <file>, <module> or <imports>, and a line range only
\* when the chunk has one.
C18_ContextPrompt ==
    request.pc = "llm"
    => LET cs == request.chunks
           out == request.context
       IN  IF cs = <<>>
           THEN out.kind = "text" /\ out.text = Placeholder.text /\ out.text # ""
           ELSE /\ out.kind = "sections"
                /\ Len(out.sections) = Len(cs)
                /\ \A i \in 1..Len(cs) :
                      LET h == out.sections[i].header
                      IN  /\ StartsWith(h, <<"--- [">> \o Str(i)
                                           \o <<"] ", cs[i].file_path>>)
                          /\ out.sections[i].code = cs[i].code
                          /\ Contains(h, <<" -> ">> \o cs[i].symbol)
                                <=> cs[i].symbol \notin Sentinels
                          /\ Contains(h, <<" (lines ">>) => cs[i].start_line # None

\* Two chunks, the first with a sentinel symbol, the second with a symbol of
\* its own and no line range.
C18_Witness ==
    /\ request.pc = "llm"
    /\ Len(request.chunks) = 2
    /\ request.chunks[1].symbol \in Sentinels
    /\ request.chunks[2].symbol \notin Sentinels
    /\ request.chunks[2].start_line = None
    /\ request.context.kind = "sections"

(***************************************************************************)
(* The embedding model                                                     *)
(***************************************************************************)
\* C20: whatever the interleaving of the calls of embed_texts and
\* embed_query, the constructor of the model runs at most once.
C20_ConstructorRunsAtMostOnce == embedder.constructed <= 1

ClassPart(node) ==
    SelectSeq(result.chunks,
              LAMBDA c : /\ c.start_line >= node.lineno
                         /\ c.end_line <= node.end_lineno
                         /\ c.symbol[1] = node.name)

Methods(node) == SelectSeq(node.body, IsDef)

KeptWhole(node) ==
    /\ Len(ClassPart(node)) = 1
    /\ ClassPart(node)[1].symbol = <<node.name>>
    /\ ClassPart(node)[1].start_line = node.lineno
    /\ ClassPart(node)[1].end_line = node.end_lineno

SplitInMethods(node) ==
    LET part == ClassPart(node)
        methods == Methods(node)
    IN  /\ Len(part) = 1 + Len(methods)
        /\ part[1].symbol = <<node.name, ".<header>">>
        /\ part[1].start_line = node.lineno
        /\ methods # <<>> => part[1].end_line = methods[1].lineno - 1
        /\ \A k \in 1..Len(methods) :
              /\ part[k + 1].symbol = <<node.name, ".", methods[k].name>>
              /\ part[k + 1].start_line = methods[k].lineno
              /\ part[k + 1].end_line = methods[k].end_lineno

\* chunk_file has returned what the structured strategy gave for a Python
\* file.
FromPython ==
    /\ result.kind = "list"
    /\ file.language = "python"
    /\ ast_parse(file.content).exc = ""
    /\ result.chunks # <<>>
    /\ result.chunks = chunk_python(file, settings).chunks

\* C22: a top-level class of at most MAX_CHUNK_LINES lines (end line - start
\* line + 1) yields one chunk named after the class over its whole range; a
\* class of more lines yields the chunk ClassName.<header>, from the start of
\* the class to the line before its first method, and one chunk
\* ClassName.methodName for each method.
C22_ClassBySpan ==
    FromPython
    => LET tree == ast_parse(file.content).body
       IN  \A k \in 1..Len(tree) :
              tree[k].type = "ClassDef"
              => IF tree[k].end_lineno - tree[k].lineno + 1 <= settings.MAX_CHUNK_LINES
                 THEN KeptWhole(tree[k])
                 ELSE SplitInMethods(tree[k])

(***************************************************************************)
(* Concurrent adds                                                         *)
(***************************************************************************)
\* Every call of the run was an add that returned, and there were n of them.
Added(n) ==
    /\ AllIdle
    /\ last.name = "none"
    /\ Len(done) = n
    /\ \A k \in 1..n : done[k].name = "add" /\ done[k].outcome = "ok"

\* The entry at every position is one chunk as add was given it.
Aligned(d) ==
    /\ EqualLength(d)
    /\ \A i \in 1..Len(d.ids) :
          /\ d.documents[i] = d.ids[i]
          /\ d.metadatas[i] = d.ids[i]
          /\ d.embeddings[i] = EmbOf(d.ids[i])

RECURSIVE Occurrences(_, _)
Occurrences(s, x) ==
    IF s = <<>> THEN 0
    ELSE (IF Head(s) = x THEN 1 ELSE 0) + Occurrences(Tail(s), x)

RECURSIVE AddedIds(_)
AddedIds(h) == IF h = <<>> THEN <<>> ELSE Head(h).ids \o AddedIds(Tail(h))

\* C23: after two adds on one project have run, in whatever interleaving,
\* and both have returned, the collection is index-aligned and holds every
\* chunk of both adds.
C23_ConcurrentAddsKeepAll ==
    Added(2)
    => LET d == Stored(1)
       IN  /\ Aligned(d)
           /\ \A x \in Tags : Occurrences(d.ids, x) = Occurrences(AddedIds(done), x)

FailedAfterAdd ==
    /\ ingest.pc = "done"
    /\ ingest.stored
    /\ ingest.raised = "commit"

\* The collection and the file of the project hold the chunks that were added.
AddedKept ==
    /\ Len(Stored(AppProject).ids) = Len(ingest.all_chunks)
    /\ \A i \in 1..Len(ingest.all_chunks) :
          /\ Stored(AppProject).ids[i] = ChunkId(AppProject, i - 1)
          /\ Stored(AppProject).documents[i] = ingest.all_chunks[i].code
    /\ files[AppProject].kind = "json"
    /\ files[AppProject].data = Stored(AppProject)

\* C25: when an ingestion run fails after its add to the vector store has
\* returned, the project ends in status error, its collection and its file
\* still hold every chunk that was added, and total_chunks stays 0.
C25_FailureAfterAddKeepsChunks ==
    FailedAfterAdd
    => /\ project.status = "error"
       /\ project.total_chunks = 0
       /\ project.rows = <<>>
       /\ AddedKept

(***************************************************************************)
(* The end of an ingestion run                                             *)
(***************************************************************************)
\* An ingestion run that has been started comes to its end.
RunEnds == (ingest.pc = "start") ~> (ingest.pc = "done")

\* C27: every ingestion run started for a project in status processing
\* leaves the project in status ready or error in the end, and no run ends,
\* by returning or by an exception that escapes, with the project still in
\* status processing.
C27_RunLeavesProcessing ==
    /\ (ingest.pc = "start") ~> (project.status \in {"ready", "error"})
    /\ [](ingest.pc = "done" => project.status \in {"ready", "error"})

(***************************************************************************)
(* The end of the fixed-window fallback                                    *)
(***************************************************************************)
\* C28: the fixed-window fallback comes to its end for every file and every
\* window size W >= 1 with the overlap of 20 lines: the start of the window
\* grows with every iteration of the loop (so that it passes the last line
\* after finitely many iterations).
C28_WindowStartIncreases ==
    [][cpc = "window" /\ cpc' = "window" => frame'.i > frame.i]_vars

(***************************************************************************)
(* The file and the cache after concurrent calls                           *)
(***************************************************************************)
\* Every call of the run has ended and its caller has its result.
Quiet ==
    /\ AllIdle
    /\ last.name = "none"
    /\ Len(done) = calls

\* A query of project p that began now would load and not raise.
QueryWouldReturn(p) ==
    /\ collections[p] = NoRef => files[p].kind \in {"absent", "json"}
    /\ Stored(p).kind = "coll"
    /\ EqualLength(Stored(p))

\* C29: when concurrent add, query and delete calls on one project have run
\* to their end, the file of the project, if there is one, holds the four
\* sequences and equals the collection in the cache; a later query does not
\* raise, and it misses no entry that an add reported as stored (in a run
\* without a delete).
C29_FileIsCacheWhenQuiet ==
    Quiet
    => /\ files[1].kind # "absent"
          => /\ files[1].kind = "json"
             /\ files[1].data.kind = "coll"
             /\ collections[1] # NoRef => files[1].data = heap[1][collections[1]]
       /\ QueryWouldReturn(1)
       /\ (\A k \in 1..Len(done) : done[k].name # "delete")
          => \A k \in 1..Len(done) :
                done[k].name = "add" /\ done[k].outcome = "ok"
                => \A j \in 1..Len(done[k].ids) :
                      \E i \in 1..Len(Stored(1).ids) : Stored(1).ids[i] = done[k].ids[j]

\* The cached collection of project q (Free when nothing is cached for it).
Cached(q) == IF collections[q] = NoRef THEN Free ELSE heap[q][collections[q]]

\* A step leaves the state of project q as it was: its entry in the cache
\* and the collection cached there, its durable file, and its row with its
\* status, its counters and its chunk rows.
Untouched(q) ==
    /\ collections'[q] = collections[q]
    /\ Cached(q)' = Cached(q)
    /\ files'[q] = files[q]
    /\ projects'[q] = projects[q]

\* C26: operations on one project never change another project's state: in
\* every interleaving of the ingestion run of one project with the upload
\* and the add, retrieve and delete calls of another, every step taken for
\* one of them leaves the other's cached collection, durable file, status,
\* counters and chunk rows unchanged.
C26_ProjectsIsolated ==
    [][/\ StepOfFirst => Untouched(SecondProject)
       /\ StepOfSecond => Untouched(AppProject)]_vars

\* The add_chunks call of the ingestion run and an add_chunks call for the
\* second project overlap, past their loads, while the second project has
\* its row and chunks on file.
C26_Witness ==
    /\ ingest.pc = "storing"
    /\ pc[IngestThread] \notin {"idle", "load"}
    /\ pc[RequestThread] \notin {"idle", "load"}
    /\ op[RequestThread].name = "add"
    /\ projects[SecondProject].status = "processing"
    /\ files[SecondProject].kind = "json"

====
